---- MODULE Spec2Model ----
(***************************************************************************)
(* Model of MCP-BOE: the retrying HTTP client (BOEHTTPClient), the         *)
(* lifetime of its pooled httpx client, and the tool layer that validates  *)
(* its arguments and issues requests through the client.                   *)
(*                                                                         *)
(* Python exceptions are records [type, codigo, detalles]; the class       *)
(* hierarchy is the function Bases, and raise / except follow the          *)
(* language: only instances of BaseException subclasses can be raised or   *)
(* named in an except clause.                                              *)
(***************************************************************************)
EXTENDS Integers, Sequences, FiniteSets, TLC

(***************************************************************************)
(* Bounds of the model.                                                    *)
(***************************************************************************)
NumCalls == 2
NumClosers == 2
MaxRetriesBound == 2
MaxRetryDelay == 2
MaxClients == 2

Calls == 1..NumCalls
Closers == 1..NumClosers

None == 0

(***************************************************************************)
(* Exception classes.  Bases maps a class to its base class; "object" is   *)
(* the root.  httpx: ConnectError and ReadTimeout are RequestErrors        *)
(* (ReadTimeout through TimeoutException), HTTPStatusError is an HTTPError *)
(* but not a RequestError.  APIError is a pydantic model.                  *)
(***************************************************************************)
(* an error class that derives from Exception *)
BaseOfAPIErrorException == "Exception"

(* class APIError(BaseModel) *)
BaseOfAPIError == "BaseModel"

Bases ==
    [ object             |-> "object",
      BaseException      |-> "object",
      Exception          |-> "BaseException",
      CancelledError     |-> "BaseException",
      TypeError          |-> "Exception",
      AttributeError     |-> "Exception",
      RuntimeError       |-> "Exception",
      ValueError         |-> "Exception",
      KeyError           |-> "Exception",
      NameError          |-> "Exception",
      UnboundLocalError  |-> "NameError",
      JSONDecodeError    |-> "ValueError",
      HTTPError          |-> "Exception",
      RequestError       |-> "HTTPError",
      TransportError     |-> "RequestError",
      TimeoutException   |-> "TransportError",
      ReadTimeout        |-> "TimeoutException",
      ConnectError       |-> "TransportError",
      HTTPStatusError    |-> "HTTPError",
      XMLSyntaxError     |-> "Exception",
      BaseModel          |-> "object",
      APIError           |-> BaseOfAPIError ]

RECURSIVE IsSubclass(_, _)
IsSubclass(cls, base) ==
    IF cls = base THEN TRUE
    ELSE IF cls = "object" THEN FALSE
    ELSE IsSubclass(Bases[cls], base)

IsExceptionClass(cls) == IsSubclass(cls, "BaseException")

Exc(type, codigo, detalles) ==
    [type |-> type, codigo |-> codigo, detalles |-> detalles]

NoExc == Exc("", 0, "")

(* raise obj: an object whose class does not derive from BaseException     *)
(* cannot be raised; the statement raises TypeError instead.               *)
Raise(obj) ==
    IF IsExceptionClass(obj.type) THEN obj
    ELSE Exc("TypeError", 0, "exceptions must derive from BaseException")

(* One try statement's except clauses, tried in order against exc.  Each   *)
(* clause is the set of classes it names.  A clause naming a class that    *)
(* is no exception class raises TypeError when it is tried, and that       *)
(* TypeError leaves the whole try statement.  The result is the index of   *)
(* the clause that caught exc (0: none) and the exception now in flight.   *)
RECURSIVE CatchFrom(_, _, _)
CatchFrom(clauses, k, exc) ==
    IF k > Len(clauses) THEN [caught |-> 0, exc |-> exc]
    ELSE IF \E cls \in clauses[k] : ~IsExceptionClass(cls)
         THEN [caught |-> 0,
               exc |-> Exc("TypeError", 0,
                  "catching classes that do not inherit from BaseException is not allowed")]
    ELSE IF \E cls \in clauses[k] : IsSubclass(exc.type, cls)
         THEN [caught |-> k, exc |-> exc]
    ELSE CatchFrom(clauses, k + 1, exc)

Catch(clauses, exc) == CatchFrom(clauses, 1, exc)

(***************************************************************************)
(* What the backend can answer to one attempt: a transport fault or an     *)
(* HTTP status.                                                            *)
(***************************************************************************)
TransientFaults == {"ConnectError", "ReadTimeout"}
Statuses == {200, 404, 503}

IsSuccess(status) == status >= 200 /\ status <= 299

(* accept_format of a get, and what the body of a 2xx response can be:     *)
(* well-formed with a 'data' entry, well-formed without, or malformed.     *)
Formats == {"application/json", "application/xml", "text/html"}
Bodies == {"data", "nodata", "malformed"}

VARIABLES
    max_retries,     \* self.max_retries
    retry_delay,     \* self.retry_delay
    client,          \* self._client: None or the id of an httpx client
    created,         \* number of httpx clients constructed so far
    cstate,          \* httpx client id -> "open" | "closed"
    acloseCalls,     \* httpx client id -> number of aclose() calls on it
    pc,              \* call -> position of its _make_request coroutine
    attempt,         \* call -> loop variable of the retry loop
    last_exception,  \* call -> last transient fault seen
    result,          \* call -> how _make_request ended
    accept_format,   \* call -> accept_format of the get
    got,             \* call -> how get ended
    log,             \* call -> events of the call, oldest first
    pcClose,         \* closer -> position of its close() coroutine
    closing,         \* closer -> client it is awaiting aclose() on
    tool,            \* the tool invocation: its name and arguments
    tpc,             \* position of the tool coroutine: "idle", "await", "done"
    tstage,          \* index of the request the tool is awaiting
    tparts,          \* sections whose data the tool has collected so far
    treqs,           \* how each get issued by the tool ended, oldest first
    tresult,         \* how the tool method ended
    hresult,         \* how handle_call_tool ended
    called,          \* the pure function applied, "" before any
    argument,        \* the arguments it was applied to
    returned         \* what it returned

vars == <<max_retries, retry_delay, client, created, cstate, acloseCalls,
          pc, attempt, last_exception, result, accept_format, got, log,
          pcClose, closing, tool, tpc, tstage, tparts, treqs, tresult, hresult,
          called, argument, returned>>

callVars == <<pc, attempt, last_exception, result, accept_format, got, log>>
poolVars == <<client, created, cstate, acloseCalls>>
closeVars == <<pcClose, closing>>
confVars == <<max_retries, retry_delay>>
toolVars == <<tool, tpc, tstage, tparts, treqs, tresult, hresult>>
pureVars == <<called, argument, returned>>

(* One event of a call's log: ev is "start", "fault", "status", "sleep",    *)
(* "wake" or "cancel"; i is the attempt (0-indexed) it belongs to; what is *)
(* the fault's class; val is the HTTP status or the delay slept.           *)
Ev(ev, i, what, val) == [ev |-> ev, i |-> i, what |-> what, val |-> val]

NoResult == [kind |-> "none", status |-> 0, exc |-> NoExc]
Returned(status) == [kind |-> "response", status |-> status, exc |-> NoExc]
Raised(exc) == [kind |-> "raised", status |-> 0, exc |-> exc]

(* how a get ends: a parsed document (body says whether it has 'data') or  *)
(* an exception *)
NoGot == [kind |-> "none", body |-> "", exc |-> NoExc]
Document(body) == [kind |-> "document", body |-> body, exc |-> NoExc]
GotRaised(exc) == [kind |-> "raised", body |-> "", exc |-> exc]

(***************************************************************************)
(* Strings the format checks read are sequences of one-character strings.  *)
(***************************************************************************)
Digits == {"0", "1", "2", "3", "4", "5", "6", "7", "8", "9"}

DigitValue(ch) ==
    CASE ch = "0" -> 0 [] ch = "1" -> 1 [] ch = "2" -> 2 [] ch = "3" -> 3
      [] ch = "4" -> 4 [] ch = "5" -> 5 [] ch = "6" -> 6 [] ch = "7" -> 7
      [] ch = "8" -> 8 [] ch = "9" -> 9

AllDigits(str) == \A j \in 1..Len(str) : str[j] \in Digits

IsLeap(y) == (y % 4 = 0 /\ y % 100 # 0) \/ y % 400 = 0

DaysInMonth(y, m) ==
    IF m = 2 THEN (IF IsLeap(y) THEN 29 ELSE 28)
    ELSE IF m \in {4, 6, 9, 11} THEN 30 ELSE 31

(* datetime.strptime(str, '%Y%m%d') on a string of 8 characters: %Y is     *)
(* four digits, %m is 1[0-2] or 0[1-9], %d is 3[01], [12]\d, 0[1-9] or a   *)
(* space and [1-9]; the year is at least 1 and the day exists in the       *)
(* month.  TRUE when strptime returns, FALSE when it raises ValueError.    *)
StrptimeYmd(str) ==
    /\ AllDigits(SubSeq(str, 1, 4))
    /\ \/ str[5] = "1" /\ str[6] \in {"0", "1", "2"}
       \/ str[5] = "0" /\ str[6] \in Digits \ {"0"}
    /\ \/ str[7] = "3" /\ str[8] \in {"0", "1"}
       \/ str[7] \in {"1", "2"} /\ str[8] \in Digits
       \/ str[7] \in {"0", " "} /\ str[8] \in Digits \ {"0"}
    /\ LET y == 1000 * DigitValue(str[1]) + 100 * DigitValue(str[2])
                + 10 * DigitValue(str[3]) + DigitValue(str[4])
           m == 10 * DigitValue(str[5]) + DigitValue(str[6])
           d == (IF str[7] = " " THEN 0 ELSE 10 * DigitValue(str[7]))
                + DigitValue(str[8])
       IN y >= 1 /\ d <= DaysInMonth(y, m)

(* a check that only counts the characters *)
ValidateDateFormatLengthOnly(str) == Len(str) = 8

(* validate_date_format *)
ValidateDateFormat(str) ==
    IF Len(str) # 8 THEN FALSE ELSE StrptimeYmd(str)

StartsWith(str, prefix) ==
    Len(str) >= Len(prefix) /\ SubSeq(str, 1, Len(prefix)) = prefix

(* the rest of the pattern after (BOE|BORME): -S-\d{4}-\d{1,3}$ where $    *)
(* also matches before one final newline *)
MatchesSerial(rest) ==
    /\ Len(rest) >= 9
    /\ SubSeq(rest, 1, 3) = <<"-", "S", "-">>
    /\ AllDigits(SubSeq(rest, 4, 7))
    /\ rest[8] = "-"
    /\ \E n \in 1..3 :
          /\ Len(rest) >= 8 + n
          /\ AllDigits(SubSeq(rest, 9, 8 + n))
          /\ \/ Len(rest) = 8 + n
             \/ Len(rest) = 9 + n /\ rest[9 + n] = "\n"

(* validate_boe_identifier: re.match(r'^(BOE|BORME)-S-\d{4}-\d{1,3}$', id) *)
ValidateBoeIdentifier(id) ==
    \E prefix \in {<<"B", "O", "E">>, <<"B", "O", "R", "M", "E">>} :
        /\ StartsWith(id, prefix)
        /\ MatchesSerial(SubSeq(id, Len(prefix) + 1, Len(id)))

(***************************************************************************)
(* Arguments the tools are called with.  An absent or empty string         *)
(* argument is the empty sequence.                                         *)
(***************************************************************************)
Absent == <<>>

(* arguments has no entry for the key: arguments[key] raises KeyError *)
NoKey == << "KeyError" >>

DateInputs ==
    { Absent,
      <<"2", "0", "2", "4", "0", "1", "1", "5">>,
      <<"2", "0", "2", "4", "0", "2", "2", "9">>,
      <<"2", "0", "2", "3", "0", "2", "2", "9">>,
      <<"2", "0", "2", "4", "1", "3", "0", "1">>,
      <<"2", "0", "2", "4", "0", "1", " ", "5">>,
      <<"2", "0", "2", "4", "-", "0", "1", "-", "1", "5">>,
      <<"2", "0", "2", "4", "0", "1", "1">> }

IdInputs ==
    { <<"B", "O", "E", "-", "S", "-", "2", "0", "2", "4", "-", "1", "2", "3">>,
      <<"B", "O", "R", "M", "E", "-", "S", "-", "2", "0", "2", "4", "-", "1">>,
      <<"B", "O", "E", "-", "A", "-", "2", "0", "1", "5", "-", "1", "0", "5", "6", "5">>,
      <<"B", "O", "E", "-", "S", "-", "2", "0", "2", "4", "-", "1", "2", "3", "4">>,
      <<"B", "O", "E", "-", "S", "-", "2", "0", "2", "4", "-", "1", "2", "\n">> }

MaxStages == 2

Sections == <<"metadatos", "analisis", "metadata-eli", "texto">>

ToolInput(name, from_date, to_date, law_id, include, n) ==
    [name |-> name, from_date |-> from_date, to_date |-> to_date,
     law_id |-> law_id, include |-> include, n |-> n]

NoTool == ToolInput("", Absent, Absent, Absent, {}, 0)

(* the tools that raise ValueError for a law_id the identifier check       *)
(* rejects, and the endpoint of the one get each of them makes *)
LawIdTools == {"get_law_text_block", "get_law_structure", "find_related_laws"}

LawIdEndpoint(name) ==
    CASE name = "get_law_text_block" -> "texto/bloque"
      [] name = "get_law_structure" -> "texto/indice"
      [] name = "find_related_laws" -> "analisis"

(* the names handle_call_tool dispatches that are tools of this model *)
ToolNames ==
    {"search_consolidated_legislation", "get_consolidated_law",
     "search_recent_boe", "get_weekly_summary", "search_auxiliary_data"}
    \cup LawIdTools

ToolInputs ==
    { ToolInput("search_consolidated_legislation", f, t, Absent, {}, 0) :
        f \in DateInputs, t \in DateInputs }
    \cup
    { ToolInput("get_consolidated_law", Absent, Absent, id, inc, 0) :
        id \in IdInputs, inc \in SUBSET {"metadatos", "analisis", "metadata-eli", "texto"} }
    \cup
    { ToolInput("get_consolidated_law", Absent, Absent, NoKey, {}, 0) }
    \cup
    { ToolInput(name, Absent, Absent, id, {}, 0) :
        name \in LawIdTools, id \in IdInputs \cup {NoKey} }
    \cup
    { ToolInput("no_such_tool", Absent, Absent, Absent, {}, 0) }
    \cup
    { ToolInput("search_recent_boe", Absent, Absent, Absent, {}, n) : n \in 1..MaxStages }
    \cup
    { ToolInput("get_weekly_summary", d, Absent, Absent, {}, n) :
        d \in DateInputs, n \in 1..MaxStages }
    \cup
    { ToolInput("search_auxiliary_data", Absent, Absent, Absent, {}, n) : n \in 0..MaxStages }

(***************************************************************************)
(* What a tool method does with the client.  A stage is one get; guarded   *)
(* says whether the get sits in an inner try statement whose only clause   *)
(* is `except APIError`.                                                   *)
(***************************************************************************)
Stage(section, guarded) == [section |-> section, guarded |-> guarded]

RECURSIVE Repeat(_, _)
Repeat(x, n) == IF n = 0 THEN <<>> ELSE Append(Repeat(x, n - 1), x)

(* get_consolidated_law: metadatos outside any inner try, then analisis,   *)
(* metadata-eli and texto each in its own *)
LawStages(include) ==
    LET Wanted(sec) == sec \in include IN
    LET secs == SelectSeq(Sections, Wanted) IN
    [j \in 1..Len(secs) |-> Stage(secs[j], secs[j] # "metadatos")]

Stages(inp) ==
    CASE inp.name = "search_consolidated_legislation" -> << Stage("search", FALSE) >>
      [] inp.name = "get_consolidated_law" -> LawStages(inp.include)
      [] inp.name \in LawIdTools -> << Stage(LawIdEndpoint(inp.name), FALSE) >>
      [] inp.name = "search_recent_boe" -> Repeat(Stage("sumario", TRUE), inp.n)
      [] inp.name = "get_weekly_summary" -> Repeat(Stage("sumario", TRUE), inp.n)
      [] inp.name = "search_auxiliary_data" -> Repeat(Stage("tabla", TRUE), inp.n)
      [] OTHER -> <<>>

(* the clause of the inner try statements *)
InnerClauses == << {"APIError"} >>

(* the clauses of the try statement around the whole tool method *)
OuterClauses(name) ==
    IF name \in {"search_consolidated_legislation", "get_consolidated_law"} \cup LawIdTools
    THEN << {"APIError"}, {"Exception"} >>
    ELSE << {"Exception"} >>

NoToolResult == [kind |-> "none", what |-> "", parts |-> <<>>, exc |-> NoExc]
Text(what, parts) == [kind |-> "text", what |-> what, parts |-> parts, exc |-> NoExc]
ToolRaised(exc) == [kind |-> "raised", what |-> "", parts |-> <<>>, exc |-> exc]

(* An exception exc reaches the try statement around the tool method: the  *)
(* first clause answers with the API error text, the last with the         *)
(* internal error text; an exception no clause takes leaves the method.    *)
OuterHandler(name, exc) ==
    LET h == Catch(OuterClauses(name), exc) IN
    IF h.caught = 0 THEN ToolRaised(h.exc)
    ELSE IF OuterClauses(name)[h.caught] = {"APIError"} THEN Text("api_error", <<>>)
    ELSE Text("internal_error", <<>>)

(* a tool that checks only the lower date bound *)
ValidationResultFromOnly(inp) ==
    IF inp.name = "search_consolidated_legislation"
       /\ inp.from_date # Absent /\ ~ValidateDateFormat(inp.from_date)
    THEN Text("invalid_parameter", <<"from_date">>)
    ELSE NoToolResult

(* The argument checks at the head of a tool method: NoToolResult when     *)
(* they pass, else how the method ends.  The handlers of                   *)
(* get_consolidated_law log law_id, which is unbound when arguments has no *)
(* law_id.  A name handle_call_tool knows no tool for makes it raise       *)
(* ValueError inside its own try statement. *)
ValidationResult(inp) ==
    CASE inp.name = "search_consolidated_legislation" ->
            IF inp.from_date # Absent /\ ~ValidateDateFormat(inp.from_date)
            THEN Text("invalid_parameter", <<"from_date">>)
            ELSE IF inp.to_date # Absent /\ ~ValidateDateFormat(inp.to_date)
            THEN Text("invalid_parameter", <<"to_date">>)
            ELSE NoToolResult
      [] inp.name = "get_consolidated_law" ->
            IF inp.law_id = NoKey
            THEN LET h == OuterHandler(inp.name, Exc("KeyError", 0, "law_id")) IN
                 IF h.kind = "text"
                 THEN ToolRaised(Exc("UnboundLocalError", 0, "law_id"))
                 ELSE h
            ELSE IF ~ValidateBoeIdentifier(inp.law_id)
            THEN Text("invalid_parameter", <<"law_id">>)
            ELSE NoToolResult
      [] inp.name \in LawIdTools ->
            IF inp.law_id = NoKey
            THEN OuterHandler(inp.name, Exc("KeyError", 0, "law_id"))
            ELSE IF ~ValidateBoeIdentifier(inp.law_id)
            THEN OuterHandler(inp.name, Exc("ValueError", 0, "law_id"))
            ELSE NoToolResult
      [] inp.name \notin ToolNames ->
            ToolRaised(Exc("ValueError", 0, "Herramienta desconocida"))
      [] inp.name = "get_weekly_summary" ->
            IF ~ValidateDateFormat(inp.from_date)
            THEN OuterHandler(inp.name, Exc("ValueError", 0, "start_date"))
            ELSE NoToolResult
      [] OTHER -> NoToolResult

(* how the method ends once every stage is done, parts being the sections  *)
(* that brought data *)
FinalResult(inp, parts) ==
    CASE inp.name = "search_consolidated_legislation" ->
            IF parts = <<>> THEN Text("no_results", <<>>) ELSE Text("results", parts)
      [] inp.name \in {"get_consolidated_law"} \cup LawIdTools ->
            IF parts = <<>> THEN Text("not_found", <<>>) ELSE Text("content", parts)
      [] OTHER -> Text("content", parts)

(* a handler that lets the exception of the tool method through *)
HandleCallToolPassing(res) == res

(* handle_call_tool around the tool method *)
HandleCallTool(res) ==
    IF res.kind # "raised" THEN res
    ELSE LET h == Catch(<< {"Exception"} >>, res.exc) IN
         IF h.caught = 1 THEN Text("handler_error", <<>>) ELSE ToolRaised(h.exc)

InitTool ==
    /\ tool = NoTool
    /\ tpc = "idle"
    /\ tstage = 0
    /\ tparts = <<>>
    /\ treqs = <<>>
    /\ tresult = NoToolResult
    /\ hresult = NoToolResult

(* no function of the client or of the validator has been applied yet *)
InitPure ==
    /\ called = ""
    /\ argument = <<>>
    /\ returned = <<>>

(***************************************************************************)
(* State after construction.  BOEHTTPClient(...) leaves _client None;      *)
(* create_boe_client(...) also runs _ensure_client, so the object starts   *)
(* with its first httpx client.                                            *)
(***************************************************************************)
InitPool(viaFactory) ==
    /\ client = IF viaFactory THEN 1 ELSE None
    /\ created = IF viaFactory THEN 1 ELSE 0
    /\ cstate = [id \in 1..MaxClients |->
                    IF viaFactory /\ id = 1 THEN "open" ELSE "none"]
    /\ acloseCalls = [id \in 1..MaxClients |-> 0]

InitCalls ==
    /\ pc = [c \in Calls |-> "idle"]
    /\ attempt = [c \in Calls |-> 0]
    /\ last_exception = [c \in Calls |-> NoExc]
    /\ result = [c \in Calls |-> NoResult]
    /\ accept_format = [c \in Calls |-> ""]
    /\ got = [c \in Calls |-> NoGot]
    /\ log = [c \in Calls |-> <<>>]

InitClosers ==
    /\ pcClose = [k \in Closers |-> "idle"]
    /\ closing = [k \in Closers |-> None]

Init ==
    /\ max_retries \in 0..MaxRetriesBound
    /\ retry_delay \in 1..MaxRetryDelay
    /\ \E viaFactory \in BOOLEAN : InitPool(viaFactory)
    /\ InitCalls
    /\ InitClosers
    /\ InitTool
    /\ InitPure

(***************************************************************************)
(* BOEHTTPClient._ensure_client: constructs an httpx client only when      *)
(* there is none.  It has no suspension point.                             *)
(***************************************************************************)
EnsureClient ==
    IF client = None
    THEN /\ client' = created + 1
         /\ created' = created + 1
         /\ cstate' = [cstate EXCEPT ![created + 1] = "open"]
    ELSE UNCHANGED <<client, created, cstate>>

(* __aenter__ *)
AEnter ==
    /\ client # None \/ created < MaxClients
    /\ EnsureClient
    /\ UNCHANGED <<acloseCalls, callVars, closeVars, confVars, toolVars, pureVars>>

(***************************************************************************)
(* BOEHTTPClient.close (also __aexit__ and BOEMCPServer.cleanup, which     *)
(* only await it).  The test of _client and the assignment of None are     *)
(* separated by the await of aclose().  httpx marks the client closed as   *)
(* soon as aclose() is entered; a second aclose() finds it closed.         *)
(***************************************************************************)
CloseBegin(k) ==
    /\ pcClose[k] = "idle"
    /\ IF client # None
       THEN /\ acloseCalls' = [acloseCalls EXCEPT ![client] = @ + 1]
            /\ cstate' = [cstate EXCEPT ![client] = "closed"]
            /\ pcClose' = [pcClose EXCEPT ![k] = "aclose"]
            /\ closing' = [closing EXCEPT ![k] = client]
       ELSE UNCHANGED <<acloseCalls, cstate, pcClose, closing>>
    /\ UNCHANGED <<client, created, callVars, confVars, toolVars, pureVars>>

CloseEnd(k) ==
    /\ pcClose[k] = "aclose"
    /\ client' = None
    /\ pcClose' = [pcClose EXCEPT ![k] = "idle"]
    /\ closing' = [closing EXCEPT ![k] = None]
    /\ UNCHANGED <<created, cstate, acloseCalls, callVars, confVars, toolVars, pureVars>>

(***************************************************************************)
(* BOEHTTPClient._make_request.                                            *)
(***************************************************************************)
(* a first clause that also takes what is no network error *)
MakeRequestClausesBroad == << {"BaseException"}, {"HTTPStatusError"} >>

(* the except clauses of the try statement inside the retry loop *)
MakeRequestClauses == << {"RequestError", "TimeoutException"}, {"HTTPStatusError"} >>

(* a backoff that does not grow with the attempt *)
BackoffDelayConstant(i) == retry_delay

(* asyncio.sleep(self.retry_delay * (attempt + 1)) *)
BackoffDelay(i) == retry_delay * (i + 1)

(* a retry loop that never awaits the backoff sleep *)
ShouldRetryNever(i) == FALSE

(* a retry budget kept on the client object and shared by its calls *)
ShouldRetryShared(i) ==
    Cardinality({c \in Calls : pc[c] \in {"inflight", "sleeping"}}) + i - 1 < max_retries

(* if attempt < self.max_retries *)
ShouldRetry(i) == i < max_retries

(* raise APIError(codigo=..., detalles=str(cause)) *)
RaiseAPIError(codigo, cause) == Raise(Exc("APIError", codigo, cause.type))

(***************************************************************************)
(* BOEHTTPClient._parse_response.  The name etree is a local of the        *)
(* function, bound only by the import on the XML path; the except clause   *)
(* (json.JSONDecodeError, etree.XMLSyntaxError) reads it whenever an       *)
(* exception leaves the try body.                                          *)
(***************************************************************************)
EtreeBound(fmt) == fmt = "application/xml"

(* the exception the try body raises, NoExc when it returns *)
ParseBodyException(fmt, body) ==
    IF fmt = "application/json"
    THEN IF body = "malformed" THEN Exc("JSONDecodeError", 0, "") ELSE NoExc
    ELSE IF fmt = "application/xml"
    THEN IF body = "malformed" THEN Exc("XMLSyntaxError", 0, "") ELSE NoExc
    ELSE Raise(Exc("APIError", 400, ""))

ParseResponse(fmt, body) ==
    LET e == ParseBodyException(fmt, body) IN
    IF e = NoExc THEN Document(body)
    ELSE IF ~EtreeBound(fmt)
    THEN GotRaised(Exc("UnboundLocalError", 0, "etree"))
    ELSE LET h == Catch(<< {"JSONDecodeError", "XMLSyntaxError"} >>, e) IN
         IF h.caught = 1 THEN GotRaised(RaiseAPIError(500, e))
         ELSE GotRaised(h.exc)

Ended(c) == pc[c] \in {"returned", "raised"}

(* The call c ends by raising exc; get has no handler, so exc leaves get   *)
(* as it is. *)
EndRaised(c, exc, lg) ==
    /\ pc' = [pc EXCEPT ![c] = "raised"]
    /\ result' = [result EXCEPT ![c] = Raised(exc)]
    /\ got' = [got EXCEPT ![c] = GotRaised(exc)]
    /\ log' = [log EXCEPT ![c] = lg]

(* self._client.request(...) of attempt i, with cl the value of _client    *)
(* and st the state of that httpx client.  None has no attribute request   *)
(* (AttributeError); httpx refuses to send through a closed client         *)
(* (RuntimeError).  Neither is named by the except clauses, so either      *)
(* leaves _make_request.  Otherwise the coroutine awaits the response.     *)
SendFailure(cl, st) ==
    IF cl = None THEN Exc("AttributeError", 0, "NoneType has no attribute request")
    ELSE IF st = "closed" THEN Exc("RuntimeError", 0, "client has been closed")
    ELSE NoExc

StartAttempt(c, i, cl, st, lg) ==
    /\ attempt' = [attempt EXCEPT ![c] = i]
    /\ IF SendFailure(cl, st) = NoExc
       THEN /\ pc' = [pc EXCEPT ![c] = "inflight"]
            /\ log' = [log EXCEPT ![c] = Append(lg, Ev("start", i, "", cl))]
            /\ UNCHANGED <<result, got>>
       ELSE EndRaised(c, Catch(MakeRequestClauses, SendFailure(cl, st)).exc, lg)

(* a loop over range(self.max_retries + 2) *)
NextIterationOneMore(c, i, last, lg) ==
    IF i + 1 < max_retries + 2
    THEN StartAttempt(c, i + 1, client, IF client = None THEN "none" ELSE cstate[client], lg)
    ELSE /\ EndRaised(c, RaiseAPIError(500, last), lg)
         /\ UNCHANGED attempt

(* The for statement after iteration i: one more attempt while             *)
(* range(self.max_retries + 1) lasts, else the raise after the loop, with  *)
(* last the value of last_exception.                                       *)
NextIteration(c, i, last, lg) ==
    IF i + 1 < max_retries + 1
    THEN StartAttempt(c, i + 1, client, IF client = None THEN "none" ELSE cstate[client], lg)
    ELSE /\ EndRaised(c, RaiseAPIError(500, last), lg)
         /\ UNCHANGED attempt

(* An exception e leaves the try body of attempt i. *)
AfterException(c, i, e, lg) ==
    LET h == Catch(MakeRequestClauses, e) IN
    IF h.caught = 1
    THEN /\ last_exception' = [last_exception EXCEPT ![c] = e]
         /\ IF ShouldRetry(i)
            THEN /\ pc' = [pc EXCEPT ![c] = "sleeping"]
                 /\ log' = [log EXCEPT ![c] =
                               Append(lg, Ev("sleep", i, "", BackoffDelay(i)))]
                 /\ UNCHANGED <<result, got, attempt>>
            ELSE NextIteration(c, i, e, lg)
    ELSE /\ UNCHANGED <<last_exception, attempt>>
         /\ IF h.caught = 2
            THEN EndRaised(c, RaiseAPIError(e.codigo, e), lg)
            ELSE EndRaised(c, h.exc, lg)

(* get(endpoint, params, accept_format) up to its first suspension:        *)
(* _make_request runs _ensure_client, then starts the first attempt. *)
GetBody(c, fmt) ==
    /\ client # None \/ created < MaxClients
    /\ accept_format' = [accept_format EXCEPT ![c] = fmt]
    /\ EnsureClient
    /\ last_exception' = [last_exception EXCEPT ![c] = NoExc]
    /\ StartAttempt(c, 0, client', cstate'[client'], log[c])
    /\ UNCHANGED <<acloseCalls, closeVars, confVars>>

Get(c, fmt) ==
    /\ pc[c] = "idle"
    /\ GetBody(c, fmt)
    /\ UNCHANGED <<toolVars, pureVars>>

(* The awaited request ends with the transport fault f. *)
RespondFault(c, f) ==
    /\ pc[c] = "inflight"
    /\ AfterException(c, attempt[c], Exc(f, 0, ""),
                      Append(log[c], Ev("fault", attempt[c], f, 0)))
    /\ UNCHANGED <<accept_format, poolVars, closeVars, confVars, toolVars, pureVars>>

(* a parse that runs inside the retry loop, its failure taken for a        *)
(* transient fault *)
ReturnResponseParsedInLoop(c, s, body, lg) ==
    IF ParseResponse(accept_format[c], body).kind = "raised"
    THEN AfterException(c, attempt[c], Exc("ConnectError", 0, ""), lg)
    ELSE /\ pc' = [pc EXCEPT ![c] = "returned"]
         /\ result' = [result EXCEPT ![c] = Returned(s)]
         /\ got' = [got EXCEPT ![c] = ParseResponse(accept_format[c], body)]
         /\ log' = [log EXCEPT ![c] = lg]
         /\ UNCHANGED <<attempt, last_exception>>

(* return response, out of the retry loop and of _make_request; get then   *)
(* parses the body, once *)
ReturnResponse(c, s, body, lg) ==
    /\ pc' = [pc EXCEPT ![c] = "returned"]
    /\ result' = [result EXCEPT ![c] = Returned(s)]
    /\ got' = [got EXCEPT ![c] = ParseResponse(accept_format[c], body)]
    /\ log' = [log EXCEPT ![c] = lg]
    /\ UNCHANGED <<attempt, last_exception>>

(* The awaited request ends with a response of status s and the given     *)
(* body; raise_for_status() raises HTTPStatusError unless the status is    *)
(* 2xx.  A 2xx response is returned to get, which parses its body at once. *)
RespondStatus(c, s, body) ==
    /\ pc[c] = "inflight"
    /\ LET lg == Append(log[c], Ev("status", attempt[c], body, s)) IN
       IF IsSuccess(s)
       THEN ReturnResponse(c, s, body, lg)
       ELSE AfterException(c, attempt[c], Exc("HTTPStatusError", s, ""), lg)
    /\ UNCHANGED <<accept_format, poolVars, closeVars, confVars, toolVars, pureVars>>

(* asyncio.sleep returns and the loop takes its next value. *)
Wake(c) ==
    /\ pc[c] = "sleeping"
    /\ NextIteration(c, attempt[c], last_exception[c],
                     Append(log[c], Ev("wake", attempt[c], "", 0)))
    /\ UNCHANGED <<last_exception, accept_format, poolVars, closeVars, confVars, toolVars, pureVars>>

(* The task running the call is cancelled (asyncio.wait_for timing out,    *)
(* task.cancel()): CancelledError is raised at the await the coroutine is  *)
(* suspended in, inside the try body or inside the first except handler.   *)
Cancel(c) ==
    /\ pc[c] \in {"inflight", "sleeping"}
    /\ LET e == Exc("CancelledError", 0, "")
           lg == Append(log[c], Ev("cancel", attempt[c], "", 0))
       IN IF pc[c] = "inflight"
          THEN AfterException(c, attempt[c], e, lg)
          ELSE /\ EndRaised(c, e, lg)
               /\ UNCHANGED <<attempt, last_exception>>
    /\ UNCHANGED <<accept_format, poolVars, closeVars, confVars, toolVars, pureVars>>

(***************************************************************************)
(* One logical call on a client that is not being closed, with every       *)
(* format, fault, status and body.                                         *)
(***************************************************************************)
TheCall == 1

(* a non-2xx response is logged without its body: the body is not read *)
BodiesOf(s) == IF IsSuccess(s) THEN Bodies ELSE {""}

Next ==
    \/ AEnter
    \/ \E fmt \in Formats : Get(TheCall, fmt)
    \/ \E f \in TransientFaults : RespondFault(TheCall, f)
    \/ \E s \in Statuses : \E body \in BodiesOf(s) : RespondStatus(TheCall, s, body)
    \/ Wake(TheCall)
    \/ Cancel(TheCall)

Spec == Init /\ [][Next]_vars

(***************************************************************************)
(* Logical calls running concurrently on one client that is not being      *)
(* closed.  The endpoint methods (search_legislation, get_law_by_id,       *)
(* get_boe_summary, get_auxiliary_table) all ask for JSON.                 *)
(***************************************************************************)
NextCalls ==
    \/ AEnter
    \/ \E c \in Calls : Get(c, "application/json")
    \/ \E c \in Calls : RespondFault(c, "ConnectError")
    \/ \E c \in Calls : \E s \in {200, 404} : \E body \in BodiesOf(s) :
          RespondStatus(c, s, body)
    \/ \E c \in Calls : Wake(c)
    \/ \E c \in Calls : Cancel(c)

SpecCalls == Init /\ [][NextCalls]_vars

(***************************************************************************)
(* The lifetime of the pooled client: close() calls interleaved with       *)
(* __aenter__ and with the calls in PoolCalls.                             *)
(***************************************************************************)
NumPoolCalls == 1
PoolCalls == 1..NumPoolCalls

NextPool ==
    \/ AEnter
    \/ \E k \in Closers : CloseBegin(k)
    \/ \E k \in Closers : CloseEnd(k)
    \/ \E c \in PoolCalls : Get(c, "application/json")
    \/ \E c \in PoolCalls : RespondFault(c, "ConnectError")
    \/ \E c \in PoolCalls : \E s \in {200, 404} : \E body \in BodiesOf(s) :
          RespondStatus(c, s, body)
    \/ \E c \in PoolCalls : Wake(c)
    \/ \E c \in PoolCalls : Cancel(c)

SpecPool == Init /\ [][NextPool]_vars

(***************************************************************************)
(* One tool invocation: the tool method of LegislationTools, SummaryTools  *)
(* or AuxiliaryTools called with inp, its gets going through the call      *)
(* TheCall one after the other.  Nothing else runs on the client, so the   *)
(* method resuming is taken as a step of its own.                          *)
(***************************************************************************)
FinishTool(res, parts, reqs) ==
    /\ tpc' = "done"
    /\ tresult' = res
    /\ hresult' = HandleCallTool(res)
    /\ tparts' = parts
    /\ treqs' = reqs
    /\ UNCHANGED <<tstage, callVars, poolVars, closeVars, confVars>>

(* the method goes on with its stage k *)
Proceed(inp, k, parts, reqs) ==
    IF k > Len(Stages(inp))
    THEN FinishTool(FinalResult(inp, parts), parts, reqs)
    ELSE /\ GetBody(TheCall, "application/json")
         /\ tpc' = "await"
         /\ tstage' = k
         /\ tparts' = parts
         /\ treqs' = reqs
         /\ UNCHANGED <<tresult, hresult>>

ToolCall(inp) ==
    /\ tpc = "idle"
    /\ UNCHANGED pureVars
    /\ tool' = inp
    /\ IF ValidationResult(inp) # NoToolResult
       THEN FinishTool(ValidationResult(inp), <<>>, <<>>)
       ELSE Proceed(inp, 1, <<>>, <<>>)

(* the awaited get has ended *)
ToolResume ==
    /\ tpc = "await"
    /\ UNCHANGED pureVars
    /\ Ended(TheCall)
    /\ tool' = tool
    /\ LET g == got[TheCall]
           st == Stages(tool)[tstage]
       IN IF g.kind = "document"
          THEN Proceed(tool, tstage + 1,
                       IF g.body = "data" THEN Append(tparts, st.section) ELSE tparts,
                       Append(treqs, g.body))
          ELSE IF st.guarded
          THEN LET h == Catch(InnerClauses, g.exc) IN
               IF h.caught = 1
               THEN Proceed(tool, tstage + 1, tparts, Append(treqs, "raised"))
               ELSE FinishTool(OuterHandler(tool.name, h.exc), <<>>, Append(treqs, "raised"))
          ELSE FinishTool(OuterHandler(tool.name, g.exc), <<>>, Append(treqs, "raised"))

NextTools ==
    \/ \E inp \in ToolInputs : ToolCall(inp)
    \/ ToolResume
    \/ RespondFault(TheCall, "ConnectError")
    \/ \E s \in {200, 404} : \E body \in BodiesOf(s) : RespondStatus(TheCall, s, body)
    \/ Wake(TheCall)
    \/ Cancel(TheCall)

SpecTools == Init /\ [][NextTools]_vars

(***************************************************************************)
(* BOEHTTPClient._xml_to_dict.  An lxml element has a tag, its attributes  *)
(* (name, value) in document order, its text (None when the element has    *)
(* no text before its first child) and its child elements in document      *)
(* order.  Text and attribute values are sequences of one-character        *)
(* strings; NoText stands for None.                                        *)
(***************************************************************************)
NoText == <<>>

Element(tag, attrib, text, children) ==
    [tag |-> tag, attrib |-> attrib, text |-> text, children |-> children]

(* the values a conversion yields: str, dict (key -> value) and list *)
Scalar(str) == [kind |-> "str", str |-> str]
Map(items) == [kind |-> "dict", items |-> items]
List(elems) == [kind |-> "list", elems |-> elems]

(* str.strip() *)
Whitespace == {" ", "\n", "\t"}

RECURSIVE LStrip(_)
LStrip(str) ==
    IF str # <<>> /\ Head(str) \in Whitespace THEN LStrip(Tail(str)) ELSE str

RECURSIVE RStrip(_)
RStrip(str) ==
    IF str # <<>> /\ str[Len(str)] \in Whitespace
    THEN RStrip(SubSeq(str, 1, Len(str) - 1))
    ELSE str

Strip(str) == RStrip(LStrip(str))

(* result[f"@{key}"] = value, for each attribute *)
RECURSIVE Attributes(_, _)
Attributes(attrib, res) ==
    IF attrib = <<>> THEN res
    ELSE Attributes(Tail(attrib),
                    (("@" \o Head(attrib)[1]) :> Scalar(Head(attrib)[2])) @@ res)

(* a later sibling of the same tag replacing the earlier one *)
MergeChildOverwrite(child_dict, tag, child_data) ==
    (tag :> child_data) @@ child_dict

(* the body of the loop over the children: the first child of a tag is     *)
(* stored as it is, the second turns the entry into a list, later ones are *)
(* appended to the list *)
MergeChild(child_dict, tag, child_data) ==
    IF tag \in DOMAIN child_dict
    THEN LET old == child_dict[tag]
             lst == IF old.kind = "list" THEN old.elems ELSE <<old>>
         IN (tag :> List(Append(lst, child_data))) @@ child_dict
    ELSE (tag :> child_data) @@ child_dict

(* the element's text kept out of the way of a child tagged text *)
StoreTextUnlessChild(child_dict, text) ==
    IF Strip(text) # <<>> /\ "text" \notin DOMAIN child_dict
    THEN ("text" :> Scalar(Strip(text))) @@ child_dict
    ELSE child_dict

(* if element.text and element.text.strip():                               *)
(*     child_dict['text'] = element.text.strip()                           *)
StoreText(child_dict, text) ==
    IF text # NoText /\ Strip(text) # <<>>
    THEN ("text" :> Scalar(Strip(text))) @@ child_dict
    ELSE child_dict

(* the text of a childless element taken as it is *)
LeafValueUnstripped(text) == Scalar(text)

(* result = element.text.strip() if element.text else "" *)
LeafValue(text) == IF text # NoText THEN Scalar(Strip(text)) ELSE Scalar(<<>>)

RECURSIVE XmlToDict(_)
RECURSIVE ChildDict(_, _)
ChildDict(children, child_dict) ==
    IF children = <<>> THEN child_dict
    ELSE ChildDict(Tail(children),
                   MergeChild(child_dict, Head(children).tag,
                              XmlToDict(Head(children))))

XmlToDict(element) ==
    LET res == Attributes(element.attrib, <<>>) IN
    IF element.children # <<>>
    THEN Map(StoreText(ChildDict(element.children, <<>>), element.text) @@ res)
    ELSE LeafValue(element.text)

(***************************************************************************)
(* The documents etree.fromstring hands to _xml_to_dict: a root <a> with   *)
(* up to MaxChildren children, which are childless elements tagged b, c or *)
(* text, or elements with children of their own.                           *)
(***************************************************************************)
MaxChildren == 3

Leaf(tag, attrib, text) == Element(tag, attrib, text, <<>>)

AttribX == << <<"x", <<"1">>>> >>
AttribXY == << <<"x", <<"1">>>>, <<"y", <<"2">>>> >>

LeafTexts == {NoText, <<"1">>, <<" ", "2", "\n">>}
RootTexts == {NoText, <<" ">>, <<"h", "i">>, <<"\n", "h", "i", " ">>}

ChildElements ==
    {Leaf("b", <<>>, t) : t \in LeafTexts}
    \cup {Leaf("b", AttribX, <<"1">>)}
    \cup {Leaf("text", <<>>, NoText), Leaf("text", <<>>, <<"1">>)}
    \cup {Leaf("c", <<>>, <<" ">>)}
    \cup {Element("b", AttribX, <<" ", "h", "i">>,
                  <<Leaf("text", <<>>, <<"t">>), Leaf("c", <<>>, <<"1">>)>>),
          Element("c", <<>>, NoText,
                  <<Leaf("b", <<>>, <<"1">>), Leaf("b", <<>>, <<"2">>)>>)}

Roots ==
    {Element("a", a, t, cs) :
        a \in {<<>>, AttribX, AttribXY},
        t \in RootTexts,
        cs \in UNION {[1..n -> ChildElements] : n \in 0..MaxChildren}}

(* _parse_response on the XML path, the body parsed into root:             *)
(* return self._xml_to_dict(root) *)
ParseXml ==
    /\ called = ""
    /\ called' = "_xml_to_dict"
    /\ \E root \in Roots :
          /\ argument' = root
          /\ returned' = XmlToDict(root)
    /\ UNCHANGED <<callVars, poolVars, closeVars, confVars, toolVars>>

(***************************************************************************)
(* BOEHTTPClient.build_search_query.  An argument that is None or ''       *)
(* is the empty sequence Absent: the code tests each argument for truth.   *)
(* Strings are sequences of pieces, the literal pieces of the f-strings    *)
(* and the characters of the arguments.  The method returns json.dumps of  *)
(* query_json; the model keeps the dict it serialises.                     *)
(***************************************************************************)
(* " AND ".join(query_parts) *)
RECURSIVE Join(_, _)
Join(parts, sep) ==
    IF parts = <<>> THEN <<>>
    ELSE IF Len(parts) = 1 THEN parts[1]
    ELSE parts[1] \o sep \o Join(Tail(parts), sep)

(* f'texto:"{text}"' and f'departamento@codigo:{department}' *)
QuotedClause(field, value) == <<field, ":", "\"">> \o value \o <<"\"">>
CodeClause(field, value) == <<field, "@codigo", ":">> \o value

(* query_parts built without the matter filter *)
QueryPartsMatterDropped(text, title, department, legal_range, matter) ==
    (IF text # Absent THEN <<QuotedClause("texto", text)>> ELSE <<>>)
    \o (IF title # Absent THEN <<QuotedClause("titulo", title)>> ELSE <<>>)
    \o (IF department # Absent THEN <<CodeClause("departamento", department)>> ELSE <<>>)
    \o (IF legal_range # Absent THEN <<CodeClause("rango", legal_range)>> ELSE <<>>)

(* query_parts: one append per argument that is true, in this order *)
QueryParts(text, title, department, legal_range, matter) ==
    (IF text # Absent THEN <<QuotedClause("texto", text)>> ELSE <<>>)
    \o (IF title # Absent THEN <<QuotedClause("titulo", title)>> ELSE <<>>)
    \o (IF department # Absent THEN <<CodeClause("departamento", department)>> ELSE <<>>)
    \o (IF legal_range # Absent THEN <<CodeClause("rango", legal_range)>> ELSE <<>>)
    \o (IF matter # Absent THEN <<CodeClause("materia", matter)>> ELSE <<>>)

(* a range that always writes both bounds *)
DateRangeBothBounds(date_from, date_to) ==
    ("gte" :> date_from) @@ ("lte" :> date_to)

(* date_range: gte when date_from is true, lte when date_to is true *)
DateRange(date_from, date_to) ==
    (IF date_from # Absent THEN ("gte" :> date_from) ELSE <<>>)
    @@ (IF date_to # Absent THEN ("lte" :> date_to) ELSE <<>>)

BuildSearchQuery(text, title, department, legal_range, matter, date_from, date_to) ==
    LET query_parts == QueryParts(text, title, department, legal_range, matter)
        query_string == IF query_parts # <<>> THEN Join(query_parts, <<" AND ">>) ELSE <<>>
        query_string_part == ("query_string" :> [query |-> query_string])
    IN IF date_from # Absent \/ date_to # Absent
       THEN [query |-> query_string_part
                       @@ ("range" :> [fecha_publicacion |-> DateRange(date_from, date_to)])]
       ELSE [query |-> query_string_part]

(* the arguments build_search_query is applied to *)
TextArgs == {Absent, <<"l", "e", "y">>, <<"l", "e", "y", " ", "4", "0">>}
CodeArgs == {Absent, <<"7", "7", "2", "3">>, <<"1", "3", "0", "0">>}
DateArgs == {Absent, <<"2", "0", "2", "4", "0", "1", "0", "1">>}

QueryArgs ==
    [text : TextArgs, title : TextArgs, department : CodeArgs,
     legal_range : CodeArgs, matter : CodeArgs, date_from : DateArgs, date_to : DateArgs]

BuildQuery ==
    /\ called = ""
    /\ called' = "build_search_query"
    /\ \E a \in QueryArgs :
          /\ argument' = a
          /\ returned' = BuildSearchQuery(a.text, a.title, a.department, a.legal_range,
                                          a.matter, a.date_from, a.date_to)
    /\ UNCHANGED <<callVars, poolVars, closeVars, confVars, toolVars>>

(***************************************************************************)
(* SearchResultValidator.validate_search_results.  Strings are sequences   *)
(* of one-character strings; a result is a dict that may lack the keys     *)
(* titulo and identificador.                                               *)
(***************************************************************************)
UpperLetters ==
    <<"A", "B", "C", "D", "E", "F", "G", "H", "I", "J", "K", "L", "M", "N",
      "O", "P", "Q", "R", "S", "T", "U", "V", "W", "X", "Y", "Z">>
LowerLetters ==
    <<"a", "b", "c", "d", "e", "f", "g", "h", "i", "j", "k", "l", "m", "n",
      "o", "p", "q", "r", "s", "t", "u", "v", "w", "x", "y", "z">>

(* str.lower() *)
LowerChar(ch) ==
    IF \E k \in 1..Len(UpperLetters) : UpperLetters[k] = ch
    THEN LowerLetters[CHOOSE k \in 1..Len(UpperLetters) : UpperLetters[k] = ch]
    ELSE ch

Lower(str) == [k \in 1..Len(str) |-> LowerChar(str[k])]

(* str.split(): the runs of characters that are not whitespace *)
RECURSIVE SplitWords(_, _)
SplitWords(str, cur) ==
    IF str = <<>> THEN (IF cur = <<>> THEN <<>> ELSE <<cur>>)
    ELSE IF Head(str) \in Whitespace
    THEN (IF cur = <<>> THEN <<>> ELSE <<cur>>) \o SplitWords(Tail(str), <<>>)
    ELSE SplitWords(Tail(str), Append(cur, Head(str)))

Split(str) == SplitWords(str, <<>>)

(* term in text *)
RECURSIVE FoundFrom(_, _, _)
FoundFrom(term, text, k) ==
    IF k + Len(term) - 1 > Len(text) THEN FALSE
    ELSE IF SubSeq(text, k, k + Len(term) - 1) = term THEN TRUE
    ELSE FoundFrom(term, text, k + 1)

In(term, text) == FoundFrom(term, text, 1)

(* result.get(key, default) *)
DictGet(dict, key, default) ==
    IF key \in DOMAIN dict THEN dict[key] ELSE default

(* a search term looked for inside the title but compared with the whole   *)
(* identifier *)
MatchFoundIdentifierExact(search_terms, title, identifier) ==
    \E k \in 1..Len(search_terms) :
        In(search_terms[k], title) \/ search_terms[k] = identifier

(* for term in search_terms: if term in title or term in identifier *)
MatchFound(search_terms, title, identifier) ==
    \E k \in 1..Len(search_terms) :
        In(search_terms[k], title) \/ In(search_terms[k], identifier)

SinTitulo == <<"S", "i", "n", " ", "t", "í", "t", "u", "l", "o">>

(* the title of a result that does not match put before the earlier ones *)
CheckResultPrepending(search_terms, res, validation) ==
    LET title == Lower(DictGet(res, "titulo", <<>>))
        identifier == Lower(DictGet(res, "identificador", <<>>))
    IN IF MatchFound(search_terms, title, identifier)
       THEN [validation EXCEPT !.matching_results = @ + 1]
       ELSE [validation EXCEPT !.mismatched_titles =
                <<DictGet(res, "titulo", SinTitulo)>> \o @]

(* the body of the loop over the results *)
CheckResult(search_terms, res, validation) ==
    LET title == Lower(DictGet(res, "titulo", <<>>))
        identifier == Lower(DictGet(res, "identificador", <<>>))
    IN IF MatchFound(search_terms, title, identifier)
       THEN [validation EXCEPT !.matching_results = @ + 1]
       ELSE [validation EXCEPT !.mismatched_titles =
                Append(@, DictGet(res, "titulo", SinTitulo))]

(* the loop over the results, from result k on *)
RECURSIVE CheckResults(_, _, _, _)
CheckResults(search_terms, results, k, validation) ==
    IF k > Len(results) THEN validation
    ELSE CheckResults(search_terms, results, k + 1,
                      CheckResult(search_terms, results[k], validation))

(* the mismatches counted where the matches are *)
ConfidenceOfMismatches(matching_results, total_results) ==
    IF total_results > 0
    THEN [num |-> total_results - matching_results, den |-> total_results]
    ELSE [num |-> 0, den |-> 1]

(* confidence is the float matching_results / total_results, kept as the   *)
(* fraction num / den; 0.0 is 0 / 1 *)
Confidence(matching_results, total_results) ==
    IF total_results > 0
    THEN [num |-> matching_results, den |-> total_results]
    ELSE [num |-> 0, den |-> 1]

(* a confidence of exactly 0.3 flagged as well *)
LikelyIncorrectAtThreshold(confidence) == 10 * confidence.num <= 3 * confidence.den

(* confidence < 0.3: the quotient of two small integers is the double      *)
(* nearest to the fraction, and 3 / 10 is the double the literal 0.3 is *)
LikelyIncorrect(confidence) == 10 * confidence.num < 3 * confidence.den

ValidateSearchResults(search_text, results) ==
    LET validation == [search_text |-> search_text,
                       total_results |-> Len(results),
                       matching_results |-> 0,
                       confidence |-> [num |-> 0, den |-> 1],
                       likely_incorrect |-> FALSE,
                       mismatched_titles |-> <<>>]
    IN IF results = <<>> THEN validation
       ELSE LET v == CheckResults(Split(Lower(search_text)), results, 1, validation)
                c == Confidence(v.matching_results, v.total_results)
            IN [v EXCEPT !.confidence = c,
                         !.likely_incorrect = LikelyIncorrect(c)]

(* the search texts and results validate_search_results is applied to *)
MaxResults == 3

TituloLey40 ==
    <<"L", "e", "y", " ", "4", "0", "/", "2", "0", "1", "5", " ", "d", "e",
      " ", "R", "é", "g", "i", "m", "e", "n", " ", "J", "u", "r", "í", "d",
      "i", "c", "o", " ", "d", "e", "l", " ", "S", "e", "c", "t", "o", "r",
      " ", "P", "ú", "b", "l", "i", "c", "o">>

SearchTexts ==
    { <<"L", "e", "y", " ", "4", "0">>,
      <<"l", "e", "y">>,
      <<>>,
      <<" ", " ">>,
      <<"B", "O", "E", "-", "A">>,
      <<" ", "d", "e", "c", "r", "e", "t", "o", "	", "A", "G", "U", "A", "S", " ">> }

SearchResults ==
    { ("titulo" :> TituloLey40),
      ("titulo" :> <<"R", "e", "a", "l", " ", "D", "e", "c", "r", "e", "t", "o">>) @@ ("identificador" :> <<"B", "O", "E", "-", "A", "-", "2", "0", "1", "5", "-", "1">>),
      ("identificador" :> <<"B", "O", "E", "-", "A", "-", "2", "0", "1", "5">>),
      ("titulo" :> <<"O", "r", "d", "e", "n">>) @@ ("identificador" :> <<"b", "o", "e", "-", "a">>),
      <<>> }

(* longer listings: m results that match the search text "ley" followed by *)
(* results that do not, up to MaxLongResults results *)
MaxLongResults == 10

LongResultLists ==
    { Repeat(("titulo" :> TituloLey40), m)
        \o Repeat(("titulo" :> <<"O", "r", "d", "e", "n">>), t - m) :
      <<t, m>> \in {<<t, m>> \in (MaxResults + 1..MaxLongResults) \X (0..MaxLongResults) : m <= t} }

ResultLists ==
    UNION {[1..n -> SearchResults] : n \in 0..MaxResults} \cup LongResultLists

Validate ==
    /\ called = ""
    /\ called' = "validate_search_results"
    /\ \E search_text \in SearchTexts :
       \E results \in ResultLists :
          /\ argument' = [search_text |-> search_text, results |-> results]
          /\ returned' = ValidateSearchResults(search_text, results)
    /\ UNCHANGED <<callVars, poolVars, closeVars, confVars, toolVars>>

(***************************************************************************)
(* search_consolidated_legislation from the response of search_legislation *)
(* on.  A text is held as the sequence of its blocks, the empty string     *)
(* being the empty sequence and + being \o; response.get('data') is a      *)
(* list, a single dict or nothing.                                         *)
(***************************************************************************)
Nothing == [kind |-> "none"]

(* bool(value) *)
Truthy(value) ==
    CASE value.kind = "list" -> value.elems # <<>>
      [] value.kind = "dict" -> value.items # <<>>
      [] value.kind = "none" -> FALSE

(* BOEWarnings.IMPORTANT_LAWS.values() *)
ImportantLawIds ==
    <<"BOE-A-1978-31229", "BOE-A-2018-16673", "BOE-A-2015-10565",
      "BOE-A-2015-10566", "BOE-A-1889-4763", "BOE-A-1995-25444",
      "BOE-A-2015-11430", "BOE-A-2017-12902">>

(* BOEWarnings.search_warning *)
SearchWarning(search_text) ==
    [what |-> "search_warning", search_text |-> search_text,
     law_ids |-> ImportantLawIds]

(* BOEWarnings.no_results_message *)
NoResultsMessage(query) ==
    [what |-> "no_results", text_search_reminder |-> query # Absent]

(* str[:n] *)
Prefix(str, n) == SubSeq(str, 1, IF Len(str) < n THEN Len(str) ELSE n)

(* format_search_validation_warning: "" unless the report is flagged *)
FormatSearchValidationWarning(validation) ==
    IF ~validation.likely_incorrect THEN <<>>
    ELSE << [what |-> "validation_warning",
             search_text |-> validation.search_text,
             mismatched |-> Len(validation.mismatched_titles),
             total |-> validation.total_results,
             confidence |-> validation.confidence,
             examples |-> LET shown == Prefix(validation.mismatched_titles, 3) IN
                          [k \in 1..Len(shown) |-> Prefix(shown[k], 80)]] >>

(* the status indicators of a listed law *)
StatusIndicators(res) ==
    (IF DictGet(res, "vigencia_agotada", <<>>) = <<"S">>
     THEN <<"Vigencia agotada">> ELSE <<>>)
    \o (IF DictGet(res, "estatus_derogacion", <<>>) = <<"S">>
        THEN <<"Derogada">> ELSE <<>>)

(* _format_search_results: the heading with the number of laws and one     *)
(* entry for every result *)
FormatSearchResults(results) ==
    [what |-> "results", found |-> Len(results),
     entries |-> [k \in 1..Len(results) |->
                    [identifier |-> DictGet(results[k], "identificador", <<"N", "/", "A">>),
                     title |-> DictGet(results[k], "titulo", SinTitulo),
                     status |-> StatusIndicators(results[k])]]]

(* a filter that looks at vigencia_agotada only *)
FilterDerogatedVigenciaOnly(results, include_derogated) ==
    IF include_derogated THEN results
    ELSE LET Kept(r) == DictGet(r, "vigencia_agotada", <<>>) # <<"S">>
         IN SelectSeq(results, Kept)

(* if not include_derogated: results = [r for r in results if ...] *)
FilterDerogated(results, include_derogated) ==
    IF include_derogated THEN results
    ELSE LET Kept(r) == /\ DictGet(r, "vigencia_agotada", <<>>) # <<"S">>
                        /\ DictGet(r, "estatus_derogacion", <<>>) # <<"S">>
         IN SelectSeq(results, Kept)

(* x or y on strings *)
Or(x, y) == IF x # <<>> THEN x ELSE y

NoValidation == [kind |-> "none"]

(* the title taken as search text when both are given *)
SearchValidationTitleFirst(query, title, results) ==
    IF Or(query, title) # <<>>
    THEN ValidateSearchResults(Or(title, query), results)
    ELSE NoValidation

(* if query or title: validation = validate_search_results(query or title, *)
(* results) *)
SearchValidation(query, title, results) ==
    IF Or(query, title) # <<>>
    THEN ValidateSearchResults(Or(query, title), results)
    ELSE NoValidation

(* the analysis put before the search warning *)
WithWarningsAnalysisFirst(formatted_results, query, title, validation_warning) ==
    IF Or(query, title) # <<>>
    THEN formatted_results \o validation_warning \o <<SearchWarning(Or(query, title))>>
    ELSE formatted_results

(* if query or title: formatted_results + search_warning, then             *)
(* + validation_warning if there is one *)
WithWarnings(formatted_results, query, title, validation_warning) ==
    IF Or(query, title) # <<>>
    THEN LET warned == formatted_results \o <<SearchWarning(Or(query, title))>>
         IN IF validation_warning # <<>> THEN warned \o validation_warning ELSE warned
    ELSE formatted_results

(* What the method returns for the data of the response, with the          *)
(* validation report it computed on the way. *)
SearchOutput(query, title, include_derogated, data) ==
    IF ~Truthy(data)
    THEN [text |-> <<NoResultsMessage(query)>>, validation |-> NoValidation]
    ELSE LET results == IF data.kind = "list" THEN data.elems ELSE <<data.items>>
             validation == SearchValidation(query, title, results)
             validation_warning ==
                 IF validation # NoValidation /\ validation.likely_incorrect
                 THEN FormatSearchValidationWarning(validation)
                 ELSE <<>>
             kept == FilterDerogated(results, include_derogated)
         IN IF kept = <<>>
            THEN [text |-> <<NoResultsMessage(query)>>, validation |-> validation]
            ELSE [text |-> WithWarnings(<<FormatSearchResults(kept)>>, query, title,
                                        validation_warning),
                  validation |-> validation]

(* the arguments and the data the method is applied to *)
MaxLaws == 3

Laws ==
    { ("titulo" :> TituloLey40)
        @@ ("identificador" :> <<"B", "O", "E", "-", "A", "-", "2", "0", "1", "5">>),
      ("titulo" :> <<"O", "r", "d", "e", "n">>) @@ ("vigencia_agotada" :> <<"S">>),
      ("titulo" :> <<"R", "e", "a", "l", " ", "D", "e", "c", "r", "e", "t", "o">>)
        @@ ("vigencia_agotada" :> <<"N">>) @@ ("estatus_derogacion" :> <<"S">>),
      ("identificador" :> <<"B", "O", "E", "-", "A", "-", "1", "9", "7", "8">>)
        @@ ("vigencia_agotada" :> <<"N">>) @@ ("estatus_derogacion" :> <<"N">>) }

SearchData ==
    {Nothing, List(<<>>)}
    \cup {Map(law) : law \in Laws}
    \cup {List(laws) : laws \in UNION {[1..n -> Laws] : n \in 1..MaxLaws}}

SearchTextArgs ==
    { Absent, <<"l", "e", "y">>, <<"O", "R", "D", "E", "N">> }

SearchConsolidatedLegislation ==
    /\ called = ""
    /\ called' = "search_consolidated_legislation"
    /\ \E query \in SearchTextArgs, title \in SearchTextArgs,
          include_derogated \in BOOLEAN, data \in SearchData :
          /\ argument' = [query |-> query, title |-> title,
                          include_derogated |-> include_derogated, data |-> data]
          /\ returned' = SearchOutput(query, title, include_derogated, data)
    /\ UNCHANGED <<callVars, poolVars, closeVars, confVars, toolVars>>

(***************************************************************************)
(* The functions that read no state of the client, applied once to every   *)
(* input, on a client constructed with its defaults.                       *)
(***************************************************************************)
InitFunctions ==
    /\ Init
    /\ max_retries = MaxRetriesBound
    /\ retry_delay = 1
    /\ client = None

NextFunctions ==
    \/ ParseXml
    \/ BuildQuery
    \/ Validate
    \/ SearchConsolidatedLegislation

SpecFunctions == InitFunctions /\ [][NextFunctions]_vars

(***************************************************************************)
(* Reading a call's log.                                                   *)
(***************************************************************************)
EventsOf(c, kinds) == LET Is(e) == e.ev \in kinds IN SelectSeq(log[c], Is)

Starts(c) == Len(EventsOf(c, {"start"}))

Last(seq) == seq[Len(seq)]

(* every attempt of c failed with a transport fault and none is left *)
ExhaustedByFaults(c) ==
    /\ pc[c] = "raised"
    /\ log[c] # <<>>
    /\ Last(log[c]).ev = "fault"

(***************************************************************************)
(* C1: when every attempt fails with a transient fault, exactly            *)
(* max_retries + 1 attempts are made and the call fails with the           *)
(* APIError of code 500 whose detail is the cause of the last attempt.     *)
(***************************************************************************)
C1_ExhaustedIsAPIError500 ==
    ExhaustedByFaults(TheCall) =>
        /\ Starts(TheCall) = max_retries + 1
        /\ result[TheCall] =
              Raised(Exc("APIError", 500, Last(log[TheCall]).what))

(***************************************************************************)
(* C2: a non-2xx status ends the call at once with an error whose code is  *)
(* that status, and no attempt follows it.                                 *)
(***************************************************************************)
C2_StatusIsAPIErrorWithCode ==
    \A j \in 1..Len(log[TheCall]) :
        LET e == log[TheCall][j] IN
        (e.ev = "status" /\ ~IsSuccess(e.val)) =>
            /\ j = Len(log[TheCall])
            /\ pc[TheCall] = "raised"
            /\ result[TheCall].exc.type = "APIError"
            /\ result[TheCall].exc.codigo = e.val

(***************************************************************************)
(* C3: a transient fault on attempt i < max_retries is followed by a sleep *)
(* of exactly retry_delay * (i + 1); a fault on the last attempt           *)
(* (i = max_retries) is followed by nothing; no sleep happens otherwise.   *)
(***************************************************************************)
C3_LinearBackoff ==
    LET lg == log[TheCall] IN
    \A j \in 1..Len(lg) :
        /\ lg[j].ev = "fault" =>
              IF lg[j].i < max_retries
              THEN /\ j < Len(lg)
                   /\ lg[j + 1] = Ev("sleep", lg[j].i, "", retry_delay * (lg[j].i + 1))
              ELSE j = Len(lg)
        /\ lg[j].ev = "sleep" => (j > 1 /\ lg[j - 1].ev = "fault")
        /\ max_retries = 0 => (lg[j].ev # "sleep" /\ Starts(TheCall) <= 1)

(* the call slept after its second attempt and then ran out of attempts *)
C3_Witness ==
    /\ ExhaustedByFaults(TheCall)
    /\ \E j \in 1..Len(log[TheCall]) :
          log[TheCall][j].ev = "sleep" /\ log[TheCall][j].i = 1

(***************************************************************************)
(* C4 as claimed: a cancellation during the request or the backoff ends    *)
(* the call with an APIError (the network error of kind Cancelled).        *)
(***************************************************************************)
Cancelled(c) == EventsOf(c, {"cancel"}) # <<>>

Quiescent ==
    /\ \A k \in Closers : pcClose[k] = "idle"
    /\ \A c \in Calls : pc[c] \notin {"inflight", "sleeping"}

C5_EveryClientClosedOnce ==
    (Quiescent /\ client = None) =>
        \A id \in 1..created : cstate[id] = "closed"

(***************************************************************************)
(* C6: within one call at most one attempt is in flight, attempts are      *)
(* numbered 0, 1, 2, ... in the order they start, and attempt i + 1 starts *)
(* only right after the wake-up from the backoff sleep that followed the   *)
(* fault of attempt i.                                                     *)
(***************************************************************************)
InFlight(c) ==
    Starts(c) - Len(EventsOf(c, {"fault", "status"}))
              - (IF Cancelled(c) /\ Len(log[c]) > 1
                    /\ log[c][Len(log[c]) - 1].ev = "start" THEN 1 ELSE 0)

C6_RetriesSequential ==
    \A c \in Calls :
        /\ InFlight(c) = (IF pc[c] = "inflight" THEN 1 ELSE 0)
        /\ \A j \in 1..Len(log[c]) :
              log[c][j].ev = "start" =>
                  IF j = 1 THEN log[c][j].i = 0
                  ELSE /\ j > 3
                       /\ log[c][j - 1].ev = "wake"
                       /\ log[c][j - 2].ev = "sleep"
                       /\ log[c][j - 3].ev = "fault"
                       /\ log[c][j - 3].i + 1 = log[c][j].i

(* two calls are both between attempts: one in its second attempt while    *)
(* the other sleeps in backoff *)
C6_Witness ==
    \E c, d \in Calls :
        /\ c # d
        /\ pc[c] = "inflight" /\ attempt[c] = 1
        /\ pc[d] = "sleeping"

(***************************************************************************)
(* C7: what a call does depends only on what the backend (and a            *)
(* cancellation) did to its own attempts: two finished calls that saw the  *)
(* same answers made the same attempts, slept the same delays and ended    *)
(* the same way, whatever the other call did meanwhile; all attempts went  *)
(* through the one pooled client.                                          *)
(***************************************************************************)
Observed(c) == EventsOf(c, {"fault", "status", "cancel"})

C7_CallsIndependent ==
    /\ \A c, d \in Calls :
          (Ended(c) /\ Ended(d) /\ Observed(c) = Observed(d)) =>
              /\ log[c] = log[d]
              /\ result[c] = result[d]
              /\ got[c] = got[d]
    /\ \A c \in Calls : \A j \in 1..Len(log[c]) :
          log[c][j].ev = "start" => (log[c][j].val = client /\ created = 1)

(* two calls that ran interleaved both ran out of attempts after retrying *)
C7_Witness ==
    /\ max_retries > 0
    /\ \A c \in Calls : ExhaustedByFaults(c)

(***************************************************************************)
(* C8: a finished call of search_consolidated_legislation whose from_date  *)
(* or to_date fails validate_date_format, or of get_consolidated_law whose *)
(* law_id fails validate_boe_identifier, ended with the invalid-parameter  *)
(* answer and without any get or network attempt on its behalf.            *)
(***************************************************************************)
FailsFormatCheck(inp) ==
    \/ /\ inp.name = "search_consolidated_legislation"
       /\ \/ inp.from_date # Absent /\ ~ValidateDateFormat(inp.from_date)
          \/ inp.to_date # Absent /\ ~ValidateDateFormat(inp.to_date)
    \/ /\ inp.name = "get_consolidated_law"
       /\ inp.law_id # NoKey
       /\ ~ValidateBoeIdentifier(inp.law_id)

IsFailure(res) ==
    \/ res.kind = "raised"
    \/ res.kind = "text" /\ res.what \in {"api_error", "internal_error", "handler_error"}
                         /\ res.parts = <<>>

SomeGetFailed == \E j \in 1..Len(treqs) : treqs[j] = "raised"

C9_FailuresAreAPIError ==
    got[TheCall].kind = "raised" =>
        /\ got[TheCall].exc.type = "APIError"
        /\ got[TheCall].exc.codigo =
              IF Last(log[TheCall]).ev = "status" /\ ~IsSuccess(Last(log[TheCall]).val)
              THEN Last(log[TheCall]).val
              ELSE 500


(***************************************************************************)
(* Reading how a get that received a 2xx response ended.                   *)
(***************************************************************************)
(* the call received a 2xx response whose body does not parse as fmt *)
UnparsedBody(c, fmt) ==
    /\ log[c] # <<>>
    /\ accept_format[c] = fmt
    /\ \E j \in 1..Len(log[c]) :
          /\ log[c][j].ev = "status"
          /\ IsSuccess(log[c][j].val)
          /\ log[c][j].what = "malformed"

(***************************************************************************)
(* C11 as claimed: when a 2xx body does not parse as the declared format,  *)
(* get has made exactly one request.                                       *)
(***************************************************************************)
C11_FormatErrorAfterOneRequest ==
    \A fmt \in {"application/json", "application/xml"} :
        UnparsedBody(TheCall, fmt) =>
            /\ Starts(TheCall) = 1
            /\ pc[TheCall] = "returned"
            /\ got[TheCall].kind = "raised"

(***************************************************************************)
(* C11 amended: the response whose body does not parse is the last thing   *)
(* the call did: _make_request returned it, get raised from the parse and  *)
(* no request follows; the requests made are that one and one for each     *)
(* transient fault retried before it.                                      *)
(***************************************************************************)
C11_FormatErrorNotRetried ==
    \A fmt \in {"application/json", "application/xml"} :
        UnparsedBody(TheCall, fmt) =>
            /\ Last(log[TheCall]).ev = "status"
            /\ Last(log[TheCall]).what = "malformed"
            /\ Len(EventsOf(TheCall, {"status"})) = 1
            /\ Starts(TheCall) = 1 + Len(EventsOf(TheCall, {"fault"}))
            /\ pc[TheCall] = "returned"
            /\ result[TheCall] = Returned(Last(log[TheCall]).val)
            /\ got[TheCall].kind = "raised"

C11_Witness ==
    /\ UnparsedBody(TheCall, "application/json")
    /\ Starts(TheCall) = 2
    /\ got[TheCall].kind = "raised"

(***************************************************************************)
(* C12: on the JSON path a body that is not well-formed JSON makes the     *)
(* parse fail with the APIError of code 500 raised for a parse failure,    *)
(* carrying the JSON decoder's error.                                      *)
(***************************************************************************)
C12_MalformedJsonIsAPIError ==
    UnparsedBody(TheCall, "application/json") =>
        got[TheCall] = GotRaised(Exc("APIError", 500, "JSONDecodeError"))

(***************************************************************************)
(* C13: on the XML path a body that is not well-formed XML makes the parse *)
(* fail with the APIError of code 500 raised for a parse failure, carrying *)
(* the XML parser's error.                                                 *)
(***************************************************************************)
C13_MalformedXmlIsAPIError ==
    UnparsedBody(TheCall, "application/xml") =>
        got[TheCall] = GotRaised(Exc("APIError", 500, "XMLSyntaxError"))

(***************************************************************************)
(* Reading a converted document.                                           *)
(***************************************************************************)
Converted == called = "_xml_to_dict"

(* the children of el tagged tag, in document order *)
Occurrences(el, tag) == LET Is(ch) == ch.tag = tag IN SelectSeq(el.children, Is)

ChildTags(el) == {el.children[i].tag : i \in 1..Len(el.children)}

(* the root and the elements below it *)
Descendants(root) ==
    LET kids(el) == {el.children[i] : i \in 1..Len(el.children)}
    IN {root} \cup kids(root) \cup UNION {kids(ch) : ch \in kids(root)}

(* what the element el was converted to *)
ConversionOf(el) == IF el = argument THEN returned ELSE XmlToDict(el)

(* the entry the children of el tagged tag are claimed to make *)
GroupOf(el, tag) ==
    LET occ == Occurrences(el, tag) IN
    IF Len(occ) = 1 THEN XmlToDict(occ[1])
    ELSE List([i \in 1..Len(occ) |-> XmlToDict(occ[i])])

HasOwnText(el) == el.text # NoText /\ Strip(el.text) # <<>>

RepeatedExample ==
    Element("a", <<>>, NoText,
            <<Leaf("b", <<>>, <<"1">>), Leaf("b", <<>>, <<"2">>)>>)

RepeatedExampleList == List(<<Scalar(<<"1">>), Scalar(<<"2">>)>>)

C15_AttributesKept ==
    Converted =>
        /\ \A el \in Descendants(argument) : \A k \in 1..Len(el.attrib) :
              /\ ConversionOf(el).kind = "dict"
              /\ ("@" \o el.attrib[k][1]) \in DOMAIN ConversionOf(el).items
              /\ ConversionOf(el).items["@" \o el.attrib[k][1]] = Scalar(el.attrib[k][2])
        /\ argument = Element("a", AttribX, <<"h", "i">>, <<>>) =>
              returned = Map("a" :> Map(("@x" :> Scalar(<<"1">>))
                                         @@ ("text" :> Scalar(<<"h", "i">>))))

(***************************************************************************)
(* C16: an element with children and non-empty trimmed text has that text, *)
(* trimmed, under the key text of its map; when a child is tagged text     *)
(* too, the key holds the element's own text.                              *)
(***************************************************************************)
C16_TextUnderReservedKey ==
    Converted =>
        \A el \in Descendants(argument) :
            (el.children # <<>> /\ HasOwnText(el)) =>
                /\ ConversionOf(el).kind = "dict"
                /\ "text" \in DOMAIN ConversionOf(el).items
                /\ ConversionOf(el).items["text"] = Scalar(Strip(el.text))

C16_Witness ==
    /\ Converted
    /\ argument.text = <<"\n", "h", "i", " ">>
    /\ Len(Occurrences(argument, "text")) = 1
    /\ Occurrences(argument, "text")[1].text = <<"1">>
    /\ returned.items["text"] = Scalar(<<"h", "i">>)

(***************************************************************************)
(* C17: an element without children converts to the scalar of its text     *)
(* with leading and trailing whitespace removed, the empty string when it  *)
(* has no text.                                                            *)
(***************************************************************************)
C17_LeafIsTrimmedText ==
    Converted =>
        \A el \in Descendants(argument) :
            el.children = <<>> =>
                /\ ConversionOf(el).kind = "str"
                /\ ConversionOf(el).str = Strip(el.text)
                /\ ConversionOf(el).str # <<>> =>
                      /\ Head(ConversionOf(el).str) \notin Whitespace
                      /\ Last(ConversionOf(el).str) \notin Whitespace
                /\ el.text = NoText => ConversionOf(el) = Scalar(<<>>)

C17_Witness ==
    /\ Converted
    /\ argument.children = <<>>
    /\ argument.text = <<"\n", "h", "i", " ">>
    /\ returned = Scalar(<<"h", "i">>)

(***************************************************************************)
(* Reading a built query.                                                  *)
(***************************************************************************)
Built == called = "build_search_query"

(* the terms of a query string: what " AND " separates *)
RECURSIVE SplitOn(_, _, _)
SplitOn(str, sep, cur) ==
    IF str = <<>> THEN <<cur>>
    ELSE IF Head(str) = sep THEN <<cur>> \o SplitOn(Tail(str), sep, <<>>)
    ELSE SplitOn(Tail(str), sep, Append(cur, Head(str)))

Terms(query_string) ==
    IF query_string = <<>> THEN <<>> ELSE SplitOn(query_string, " AND ", <<>>)

Filters == {"text", "title", "department", "legal_range", "matter"}

PresentFilters == {f \in Filters : argument[f] # Absent}

(* the clause the filter f is to contribute *)
ClauseFor(f) ==
    IF f = "text" THEN <<"texto", ":", "\"">> \o argument[f] \o <<"\"">>
    ELSE IF f = "title" THEN <<"titulo", ":", "\"">> \o argument[f] \o <<"\"">>
    ELSE IF f = "department" THEN <<"departamento", "@codigo", ":">> \o argument[f]
    ELSE IF f = "legal_range" THEN <<"rango", "@codigo", ":">> \o argument[f]
    ELSE <<"materia", "@codigo", ":">> \o argument[f]

(***************************************************************************)
(* C18: the terms of the built query are one clause for each of the five   *)
(* filters that is present and nothing else, joined by AND; without any    *)
(* filter the query string is the empty one (and the payload is returned,  *)
(* no error); with department 7723 and legal range 1300 alone there are    *)
(* two terms.                                                              *)
(***************************************************************************)
C18_OneClausePerFilter ==
    Built =>
        LET terms == Terms(returned.query.query_string.query) IN
        /\ Len(terms) = Cardinality(PresentFilters)
        /\ \A f \in PresentFilters : \E i \in 1..Len(terms) : terms[i] = ClauseFor(f)
        /\ \A i \in 1..Len(terms) : \E f \in PresentFilters : terms[i] = ClauseFor(f)
        /\ PresentFilters = {} => returned.query.query_string.query = <<>>
        /\ (PresentFilters = {} /\ argument.date_from = Absent /\ argument.date_to = Absent)
              => returned = [query |-> [query_string |-> [query |-> <<>>]]]
        /\ (PresentFilters = {"department", "legal_range"}
              /\ argument.department = <<"7", "7", "2", "3">>
              /\ argument.legal_range = <<"1", "3", "0", "0">>)
              => terms = << <<"departamento", "@codigo", ":", "7", "7", "2", "3">>,
                            <<"rango", "@codigo", ":", "1", "3", "0", "0">> >>

C18_Witness ==
    /\ Built
    /\ PresentFilters = {"text", "department", "matter"}
    /\ Len(Terms(returned.query.query_string.query)) = 3

(***************************************************************************)
(* C19: the built query has a date range exactly when date_from or         *)
(* date_to is supplied, and the range has the lower bound gte exactly when *)
(* date_from is supplied and the upper bound lte exactly when date_to is,  *)
(* each holding the date supplied.                                         *)
(***************************************************************************)
C19_RangeHoldsSuppliedBounds ==
    Built =>
        LET q == returned.query IN
        /\ ("range" \in DOMAIN q)
              <=> (argument.date_from # Absent \/ argument.date_to # Absent)
        /\ "range" \in DOMAIN q =>
              LET r == q["range"].fecha_publicacion IN
              /\ ("gte" \in DOMAIN r) <=> argument.date_from # Absent
              /\ ("lte" \in DOMAIN r) <=> argument.date_to # Absent
              /\ "gte" \in DOMAIN r => r["gte"] = argument.date_from
              /\ "lte" \in DOMAIN r => r["lte"] = argument.date_to

C19_Witness ==
    /\ Built
    /\ argument.date_from = Absent
    /\ argument.date_to # Absent
    /\ DOMAIN returned.query["range"].fecha_publicacion = {"lte"}

(***************************************************************************)
(* Reading a validation.                                                   *)
(***************************************************************************)
Validated == called = "validate_search_results"

(* str[a..b] is a whitespace-separated token of str *)
IsToken(str, a, b) ==
    /\ a <= b
    /\ \A k \in a..b : str[k] \notin Whitespace
    /\ a = 1 \/ str[a - 1] \in Whitespace
    /\ b = Len(str) \/ str[b + 1] \in Whitespace

(* term is a substring of text *)
OccursIn(term, text) ==
    \E k \in 0..(Len(text) - Len(term)) :
        \A i \in 1..Len(term) : text[k + i] = term[i]

(* some lowercased token of the search text is a substring of the          *)
(* lowercased title or of the lowercased identifier of res *)
ResultMatches(search_text, res) ==
    LET lowered == Lower(search_text)
        title == Lower(IF "titulo" \in DOMAIN res THEN res["titulo"] ELSE <<>>)
        identifier ==
            Lower(IF "identificador" \in DOMAIN res THEN res["identificador"] ELSE <<>>)
    IN \E a, b \in 1..Len(lowered) :
          /\ IsToken(lowered, a, b)
          /\ \/ OccursIn(SubSeq(lowered, a, b), title)
             \/ OccursIn(SubSeq(lowered, a, b), identifier)

(***************************************************************************)
(* C20: the results counted as matching are exactly those of which the     *)
(* lowercased title or the lowercased identifier contains a lowercased,    *)
(* whitespace-separated token of the search text; "Ley 40" against the one *)
(* title "Ley 40/2015 de Régimen Jurídico del Sector Público" gives one    *)
(* matching result and confidence 1.0.                                     *)
(***************************************************************************)
C20_MatchingIsTokenSubstring ==
    Validated =>
        LET results == argument.results
            matching == {k \in 1..Len(results) :
                            ResultMatches(argument.search_text, results[k])}
        IN /\ returned.matching_results = Cardinality(matching)
           /\ Len(returned.mismatched_titles) = Len(results) - Cardinality(matching)
           /\ (argument.search_text = <<"L", "e", "y", " ", "4", "0">>
                 /\ results = <<("titulo" :> TituloLey40)>>)
                 => /\ returned.matching_results = 1
                    /\ returned.confidence = [num |-> 1, den |-> 1]
                    /\ returned.likely_incorrect = FALSE

C20_Witness ==
    /\ Validated
    /\ argument.search_text = <<"B", "O", "E", "-", "A">>
    /\ Len(argument.results) = 2
    /\ argument.results[1] = ("titulo" :> TituloLey40)
    /\ DOMAIN argument.results[2] = {"identificador"}
    /\ returned.matching_results = 1
    /\ returned.confidence = [num |-> 1, den |-> 2]


(***************************************************************************)
(* C21: every report of validate_search_results counts as total_results   *)
(* the number of results it was given, never counts more matching results  *)
(* than results, and has as confidence the quotient matching_results /     *)
(* total_results when there is a result and 0 when there is none, a value  *)
(* between 0 and 1.                                                        *)
(***************************************************************************)
C21_ConfidenceIsMatchingShare ==
    Validated =>
        LET total == returned.total_results
            matching == returned.matching_results
            c == returned.confidence
        IN /\ total = Len(argument.results)
           /\ matching \in 0..total
           /\ c.den > 0
           /\ c.num \in 0..c.den
           /\ total > 0 => c.num * total = matching * c.den
           /\ total = 0 => c.num = 0

C21_Witness ==
    /\ Validated
    /\ Len(argument.results) = 3
    /\ returned.matching_results = 2
    /\ returned.confidence = [num |-> 2, den |-> 3]

(***************************************************************************)
(* C22 as claimed: for every input, the empty result list included, the    *)
(* report is flagged likely_incorrect exactly when its confidence is below *)
(* 0.30.                                                                   *)
(***************************************************************************)
C22_FlaggedIffBelowThreshold ==
    Validated =>
        (returned.likely_incorrect <=>
            10 * returned.confidence.num < 3 * returned.confidence.den)

(***************************************************************************)
(* C22 as the code has it: for every input with at least one result the    *)
(* report is flagged likely_incorrect exactly when its confidence is below *)
(* 0.30, so that 3 matching results of 10 are not flagged and a listing    *)
(* none of whose results holds a token of the search text is; the report   *)
(* for an empty result list is not flagged.                                *)
(***************************************************************************)
C22_FlaggedIffBelowThresholdUnlessEmpty ==
    Validated =>
        LET results == argument.results
            c == returned.confidence
        IN /\ results # <<>> =>
                (returned.likely_incorrect <=> 10 * c.num < 3 * c.den)
           /\ (results # <<>> /\ \A k \in 1..Len(results) :
                    ~ResultMatches(argument.search_text, results[k]))
                => returned.likely_incorrect
           /\ results = <<>> => ~returned.likely_incorrect

C22_Witness ==
    /\ Validated
    /\ Len(argument.results) = 10
    /\ returned.matching_results = 3
    /\ ~returned.likely_incorrect

(* the titles of the results from k on that do not match the search text,  *)
(* "Sin título" for a result without a title *)
RECURSIVE TitlesOfMismatches(_, _, _)
TitlesOfMismatches(search_text, results, k) ==
    IF k > Len(results) THEN <<>>
    ELSE (IF ResultMatches(search_text, results[k]) THEN <<>>
          ELSE <<IF "titulo" \in DOMAIN results[k]
                 THEN results[k]["titulo"] ELSE SinTitulo>>)
         \o TitlesOfMismatches(search_text, results, k + 1)

(***************************************************************************)
(* C23: mismatched_titles of a report holds the title of every result that *)
(* does not match, one entry for each, in the order of the input and       *)
(* without truncation, so that its length is total_results minus           *)
(* matching_results.                                                       *)
(***************************************************************************)
C23_MismatchedTitlesInOrder ==
    Validated =>
        /\ returned.mismatched_titles =
              TitlesOfMismatches(argument.search_text, argument.results, 1)
        /\ Len(returned.mismatched_titles) =
              returned.total_results - returned.matching_results

C23_Witness ==
    /\ Validated
    /\ argument.search_text = <<"L", "e", "y", " ", "4", "0">>
    /\ Len(argument.results) = 3
    /\ returned.mismatched_titles =
          <<<<"O", "r", "d", "e", "n">>, SinTitulo>>


(* the pattern of law_id in the tool schema: ^BOE-[A-Z]-\d{4}-\d{1,5}$ *)
MatchesSchemaPattern(id) ==
    /\ Len(id) \in 12..16
    /\ SubSeq(id, 1, 4) = <<"B", "O", "E", "-">>
    /\ \E k \in 1..Len(UpperLetters) : id[5] = UpperLetters[k]
    /\ id[6] = "-"
    /\ AllDigits(SubSeq(id, 7, 10))
    /\ id[11] = "-"
    /\ AllDigits(SubSeq(id, 12, Len(id)))

(***************************************************************************)
(* C24 as claimed: a call of get_consolidated_law, get_law_text_block,     *)
(* get_law_structure or find_related_laws whose law_id has the form        *)
(* BOE-A-YYYY-NNNNN of the tool schema passes the identifier check and     *)
(* goes on to fetch the law: it is awaiting a get or has made one.         *)
(***************************************************************************)
C24_SchemaIdentifierIsFetched ==
    (/\ tpc # "idle"
     /\ tool.name \in {"get_consolidated_law"} \cup LawIdTools
     /\ tool.law_id # NoKey
     /\ MatchesSchemaPattern(tool.law_id)
     /\ tool.name = "get_consolidated_law" => tool.include # {})
        => (tpc = "await" \/ treqs # <<>>)

(***************************************************************************)
(* C30: every invocation handled by handle_call_tool that has ended        *)
(* returned a text: a name no tool has, an argument that is missing and    *)
(* every exception that leaves the tool method are turned into an error    *)
(* text, and none leaves the handler.                                      *)
(***************************************************************************)
C30_HandlerReturnsText ==
    tpc = "done" =>
        /\ hresult.kind = "text"
        /\ tresult.kind = "text" => hresult = tresult
        /\ tresult.kind = "raised" => hresult = Text("handler_error", <<>>)
        /\ (tool.name \notin ToolNames \/ tool.law_id = NoKey)
              => hresult = Text("handler_error", <<>>)

(* get_law_structure was called without law_id *)
C30_Witness ==
    /\ tpc = "done"
    /\ tool.name = "get_law_structure"
    /\ tool.law_id = NoKey
    /\ tresult.kind = "raised"
    /\ hresult = Text("handler_error", <<>>)

(***************************************************************************)
(* Reading what search_consolidated_legislation made of a response.        *)
(***************************************************************************)
Searched == called = "search_consolidated_legislation"

(* the laws the API returned *)
ReturnedLaws ==
    CASE argument.data.kind = "list" -> argument.data.elems
      [] argument.data.kind = "dict" -> <<argument.data.items>>
      [] OTHER -> <<>>

TextSearch == argument.query # Absent \/ argument.title # Absent

IsListing == returned.text[1].what = "results"

Derogated(law) ==
    \/ "vigencia_agotada" \in DOMAIN law /\ law["vigencia_agotada"] = <<"S">>
    \/ "estatus_derogacion" \in DOMAIN law /\ law["estatus_derogacion"] = <<"S">>

(***************************************************************************)
(* C25: a search with a query or a title that returned a listing has,      *)
(* right after the listing, the search-limitations warning with the        *)
(* identifiers of the important laws, BOE-A-1978-31229 among them; the     *)
(* result-analysis warning follows it exactly when the validation report   *)
(* is flagged likely_incorrect, and nothing else follows.                  *)
(***************************************************************************)
C25_WarningsFollowListing ==
    (Searched /\ TextSearch /\ IsListing) =>
        LET text == returned.text IN
        /\ Len(text) \in 2..3
        /\ text[2].what = "search_warning"
        /\ \E k \in 1..Len(text[2].law_ids) : text[2].law_ids[k] = "BOE-A-1978-31229"
        /\ returned.validation.likely_incorrect <=> Len(text) = 3
        /\ Len(text) = 3 => text[3].what = "validation_warning"

C25_Witness ==
    /\ Searched
    /\ argument.query = <<"O", "R", "D", "E", "N">>
    /\ Len(ReturnedLaws) = 3
    /\ IsListing
    /\ Len(returned.text) = 3
    /\ returned.text[3].what = "validation_warning"

(***************************************************************************)
(* C26: when the response carries no data, or derogated laws are not asked *)
(* for and every returned law has vigencia_agotada or estatus_derogacion   *)
(* 'S', the search returns the no-results message alone; and no listing it *)
(* returns is empty.                                                       *)
(***************************************************************************)
C26_NoResultsMessageForNothingToShow ==
    Searched =>
        /\ (\/ ReturnedLaws = <<>>
            \/ /\ ~argument.include_derogated
               /\ \A k \in 1..Len(ReturnedLaws) : Derogated(ReturnedLaws[k]))
              => (Len(returned.text) = 1 /\ returned.text[1].what = "no_results")
        /\ \A k \in 1..Len(returned.text) :
              returned.text[k].what = "results" =>
                  (returned.text[k].found > 0 /\ returned.text[k].entries # <<>>)

(* two laws came back, one out of force and one derogated *)
C26_Witness ==
    /\ Searched
    /\ ~argument.include_derogated
    /\ Len(ReturnedLaws) = 2
    /\ "vigencia_agotada" \in DOMAIN ReturnedLaws[1]
    /\ ReturnedLaws[1]["vigencia_agotada"] = <<"S">>
    /\ "estatus_derogacion" \in DOMAIN ReturnedLaws[2]
    /\ ReturnedLaws[2]["estatus_derogacion"] = <<"S">>
    /\ ReturnedLaws[2]["vigencia_agotada"] = <<"N">>
    /\ returned.text = <<NoResultsMessage(argument.query)>>

(***************************************************************************)
(* C29: the validation report of a search is computed on the laws as the   *)
(* API returned them, before the derogated ones are filtered out: its      *)
(* total_results is the number of laws returned and its matching_results   *)
(* the number of those that match, whatever is displayed; there is a       *)
(* report only when a query or a title is given, and its search text is    *)
(* the query when both are.                                                *)
(***************************************************************************)
C29_ValidationBeforeFilter ==
    (Searched /\ ReturnedLaws # <<>>) =>
        IF TextSearch
        THEN LET search_text ==
                     IF argument.query # Absent THEN argument.query ELSE argument.title
             IN /\ returned.validation # NoValidation
                /\ returned.validation.search_text = search_text
                /\ returned.validation.total_results = Len(ReturnedLaws)
                /\ returned.validation.matching_results =
                      Cardinality({k \in 1..Len(ReturnedLaws) :
                                      ResultMatches(search_text, ReturnedLaws[k])})
        ELSE returned.validation = NoValidation

(* three laws validated against the query, one displayed *)
C29_Witness ==
    /\ Searched
    /\ argument.query = <<"l", "e", "y">>
    /\ argument.title = <<"O", "R", "D", "E", "N">>
    /\ IsListing
    /\ returned.validation.total_results = 3
    /\ returned.text[1].found = 1
    /\ returned.validation.search_text = <<"l", "e", "y">>

(* the transport faults of c before event j of its log *)
FaultsBefore(c, j) ==
    Cardinality({n \in 1..(j - 1) : log[c][n].ev = "fault"})

(***************************************************************************)
(* C27: _make_request never starts more than max_retries + 1 attempts, and *)
(* the first attempt answered with a 2xx status ends it: after k transient *)
(* failures and then a 2xx response exactly k + 1 attempts were started,   *)
(* the call returned that response, and nothing was attempted afterwards.  *)
(***************************************************************************)
C27_AttemptsBoundedFirstSuccessReturned ==
    \A c \in Calls :
        /\ Starts(c) <= max_retries + 1
        /\ attempt[c] <= max_retries
        /\ \A j \in 1..Len(log[c]) :
              (log[c][j].ev = "status" /\ IsSuccess(log[c][j].val)) =>
                  /\ j = Len(log[c])
                  /\ pc[c] = "returned"
                  /\ result[c] = Returned(log[c][j].val)
                  /\ Starts(c) = FaultsBefore(c, j) + 1
                  /\ log[c][j].i = FaultsBefore(c, j)

(* two transient failures, then a 200 on the third attempt *)
C27_Witness ==
    /\ pc[TheCall] = "returned"
    /\ Starts(TheCall) = 3
    /\ FaultsBefore(TheCall, Len(log[TheCall])) = 2
    /\ result[TheCall] = Returned(200)

(***************************************************************************)
(* C28 as claimed: a request that has started an attempt and meets a       *)
(* close() of the same object while it awaits or sleeps never goes on to   *)
(* send through a missing or closed client: it does not end with the       *)
(* AttributeError of None.request or the RuntimeError of a closed httpx    *)
(* client, but with a response or an APIError.                             *)
(***************************************************************************)
C28_NoAttemptThroughMissingClient ==
    \A c \in Calls :
        (pc[c] = "raised" /\ Starts(c) >= 1) =>
            result[c].exc.type \notin {"AttributeError", "RuntimeError"}
====
